---- MODULE Spec2Model ----
(***************************************************************************)
(* eew-renderer-url: the encode and decode subcommands of src/main.rs.     *)
(*                                                                         *)
(* A string is a sequence of Unicode code points, a buffer a sequence of   *)
(* bytes (0..255).  The crates the program calls (base32768, base65536,    *)
(* urlencoding, hmac, prost) are modelled by the algorithm each one        *)
(* implements; the protobuf schema compiled into OUT_DIR is not part of    *)
(* src/ and is modelled from the record shapes main.rs builds and reads.   *)
(*                                                                         *)
(* Integers of the model stay below 2^31 (the width TLC computes with):    *)
(* times, codes and coordinates are drawn from that range, where           *)
(* chrono::DateTime::from_timestamp_secs always returns Some.              *)
(***************************************************************************)
EXTENDS Integers, Sequences, FiniteSets, TLC

\* ------------------------------------------------------------------------
\* Bounds of the model
\* ------------------------------------------------------------------------

\* Longest byte sequence handed to the text transport codec on its own.
MaxRaw == 2

\* Longest code list of a bucket.
MaxCodes == 2

\* ------------------------------------------------------------------------
\* Bytes, bits and sequences
\* ------------------------------------------------------------------------

Pow2(n) == 2 ^ n

Drop(s, n) == IF n >= Len(s) THEN <<>> ELSE SubSeq(s, n + 1, Len(s))

Take(s, n) == IF n >= Len(s) THEN s ELSE SubSeq(s, 1, n)

\* The concatenation of a sequence of sequences (by halves, to keep the
\* evaluation shallow).
RECURSIVE Flatten(_)
Flatten(ss) ==
  IF ss = <<>> THEN <<>>
  ELSE IF Len(ss) = 1 THEN ss[1]
  ELSE LET h == Len(ss) \div 2
       IN  Flatten(SubSeq(ss, 1, h)) \o Flatten(SubSeq(ss, h + 1, Len(ss)))

RECURSIVE SumSeq(_)
SumSeq(s) ==
  IF s = <<>> THEN 0
  ELSE IF Len(s) = 1 THEN s[1]
  ELSE LET h == Len(s) \div 2
       IN  SumSeq(SubSeq(s, 1, h)) + SumSeq(SubSeq(s, h + 1, Len(s)))

\* The bits of a buffer, most significant bit of each byte first.
BitsOf(bytes) ==
  [i \in 1..(8 * Len(bytes)) |->
     (bytes[((i - 1) \div 8) + 1] \div Pow2(7 - ((i - 1) % 8))) % 2]

\* The number whose binary digits are bits[from .. from+n-1].
RECURSIVE BitsValue(_, _, _)
BitsValue(bits, from, n) ==
  IF n = 0 THEN 0
  ELSE 2 * BitsValue(bits, from, n - 1) + bits[from + n - 1]

\* ------------------------------------------------------------------------
\* base32768 (Scheme A): 15 bits per code point
\* ------------------------------------------------------------------------

\* The code point ranges of the 15-bit repertoire, in order of value.
Repertoire15 ==
  << <<1184, 1215>>, <<1280, 1311>>, <<1664, 1727>>, <<1888, 1951>>,
     <<1984, 2015>>, <<4096, 4127>>, <<4256, 4287>>, <<4352, 4447>>,
     <<4480, 4511>>, <<4576, 4671>>, <<4704, 4735>>, <<4832, 4863>>,
     <<4896, 4927>>, <<5024, 5087>>, <<5152, 5727>>, <<5792, 5855>>,
     <<6016, 6047>>, <<6176, 6239>>, <<6336, 6367>>, <<6528, 6559>>,
     <<6624, 6655>>, <<6688, 6719>>, <<7104, 7135>>, <<7168, 7199>>,
     <<7424, 7455>>, <<8672, 8703>>, <<8896, 8927>>, <<9024, 9183>>,
     <<9216, 9247>>, <<9472, 10079>>, <<10112, 10175>>, <<10240, 10623>>,
     <<10656, 10687>>, <<10784, 10847>>, <<10880, 10943>>, <<10976, 11103>>,
     <<11264, 11295>>, <<11392, 11487>>, <<11520, 11551>>, <<11584, 11615>>,
     <<11936, 11999>>, <<12736, 12767>>, <<13312, 19871>>, <<19904, 40895>>,
     <<40960, 42111>>, <<42144, 42175>>, <<42240, 42495>>, <<42560, 42591>>,
     <<42656, 42719>>, <<42752, 42847>>, <<42880, 42911>>, <<43072, 43103>> >>

\* The ranges of the 7-bit repertoire, used for a final group of 1..7 bits.
Repertoire7 == << <<384, 415>>, <<576, 671>> >>

\* The z-th code point of a repertoire (z counted from 0).
RECURSIVE RangeLookup(_, _, _)
RangeLookup(ranges, z, i) ==
  LET size == ranges[i][2] - ranges[i][1] + 1
  IN  IF z < size THEN ranges[i][1] + z
      ELSE RangeLookup(ranges, z - size, i + 1)

\* The position of code point cp in a repertoire, or -1.
RECURSIVE RangeIndex(_, _, _, _)
RangeIndex(ranges, cp, i, base) ==
  IF i > Len(ranges) THEN -1
  ELSE IF cp >= ranges[i][1] /\ cp <= ranges[i][2]
       THEN base + (cp - ranges[i][1])
       ELSE RangeIndex(ranges, cp, i + 1,
                       base + (ranges[i][2] - ranges[i][1] + 1))

\* base32768::encode: whole 15-bit groups, then the remaining bits padded
\* with ones to 7 bits (1..7 left) or to 15 bits (8..14 left).
Base32768Encode(bytes) ==
  LET bits == BitsOf(bytes)
      n    == Len(bits)
      full == n \div 15
      rest == n % 15
      body == [k \in 1..full |->
                 RangeLookup(Repertoire15, BitsValue(bits, 15 * (k - 1) + 1, 15), 1)]
      tail == IF rest = 0 THEN <<>>
              ELSE IF rest <= 7
                   THEN << RangeLookup(Repertoire7,
                             BitsValue(bits, 15 * full + 1, rest) * Pow2(7 - rest)
                               + (Pow2(7 - rest) - 1), 1) >>
                   ELSE << RangeLookup(Repertoire15,
                             BitsValue(bits, 15 * full + 1, rest) * Pow2(15 - rest)
                               + (Pow2(15 - rest) - 1), 1) >>
  IN  body \o tail

\* What one character of a base32768 string stands for: its position in the
\* 15-bit repertoire, 32768 plus its position in the 7-bit repertoire, or -1
\* for a character of neither.
Base32768CharValue(cp) ==
  LET z15 == RangeIndex(Repertoire15, cp, 1, 0)
  IN  IF z15 >= 0 THEN z15
      ELSE LET z7 == RangeIndex(Repertoire7, cp, 1, 0)
           IN  IF z7 >= 0 THEN 32768 + z7 ELSE -1

\* Bit p of the stream the character values zs stand for, every character
\* but a 7-bit last one carrying 15 bits.
StreamBit(zs, p) ==
  LET k == ((p - 1) \div 15) + 1
      o == (p - 1) % 15
  IN  IF zs[k] >= 32768 THEN ((zs[k] - 32768) \div Pow2(6 - o)) % 2
      ELSE (zs[k] \div Pow2(14 - o)) % 2

\* The number whose binary digits are bits p .. p+n-1 of the stream.
RECURSIVE StreamValue(_, _, _)
StreamValue(zs, p, n) ==
  IF n = 0 THEN 0
  ELSE 2 * StreamValue(zs, p, n - 1) + StreamBit(zs, p + n - 1)

\* The bytes of a legal sequence of character values: [ok, bytes].
Base32768Bytes(zs) ==
  LET len   == Len(zs)
      nbits == IF len = 0 THEN 0
               ELSE 15 * (len - 1) + (IF zs[len] >= 32768 THEN 7 ELSE 15)
      n     == nbits \div 8
      extra == nbits % 8
  IN  IF StreamValue(zs, 8 * n + 1, extra) # Pow2(extra) - 1
      THEN [ok |-> FALSE, bytes |-> <<>>]
      ELSE [ok |-> TRUE,
            bytes |-> [k \in 1..n |-> StreamValue(zs, 8 * (k - 1) + 1, 8)]]

\* base32768::decode: [ok, bytes].  Fails on a character outside the
\* repertoires, on a 7-bit character before the end, and when the bits left
\* over after the last whole byte are not all ones.
Base32768Decode(str) ==
  LET zs == <<>> \o [i \in 1..Len(str) |-> Base32768CharValue(str[i])]
  IN  IF \A i \in 1..Len(zs) : zs[i] >= 0 /\ (zs[i] >= 32768 => i = Len(zs))
      THEN Base32768Bytes(zs)
      ELSE [ok |-> FALSE, bytes |-> <<>>]

\* ------------------------------------------------------------------------
\* base65536 (Scheme B): two bytes per code point
\* ------------------------------------------------------------------------

\* The ranges holding the 256 blocks of 256 code points, in order of the
\* second byte of a pair.
BlockRanges ==
  << <<13312, 19711>>, <<19968, 40703>>, <<41216, 41983>>, <<42240, 42495>>,
     <<67072, 67327>>, <<73728, 74495>>, <<77824, 78847>>, <<82944, 83455>>,
     <<92160, 92671>>, <<131072, 165375>> >>

\* The block of a final, unpaired byte.
PaddingBlockStart == 5376

\* The first code point of the block of second byte b2.
BlockStart(b2) == RangeLookup(BlockRanges, 256 * b2, 1)

\* base65536::encode(bytes, None): code point = BlockStart(b2) + b1 for each
\* pair (b1, b2); a last single byte lands in the padding block.
Base65536Encode(bytes) ==
  LET n == Len(bytes)
  IN  [k \in 1..((n + 1) \div 2) |->
         IF 2 * k <= n THEN BlockStart(bytes[2 * k]) + bytes[2 * k - 1]
         ELSE PaddingBlockStart + bytes[2 * k - 1]]

\* base65536::decode(str, false): [ok, bytes].  Fails on a code point of no
\* block and on any character after one of the padding block.
Base65536Decode(str) ==
  LET idx(cp) == RangeIndex(BlockRanges, cp, 1, 0)
      pad(cp) == cp >= PaddingBlockStart /\ cp < PaddingBlockStart + 256
      legal   == \A i \in 1..Len(str) :
                   IF pad(str[i]) THEN i = Len(str) ELSE idx(str[i]) >= 0
  IN  IF ~legal THEN [ok |-> FALSE, bytes |-> <<>>]
      ELSE [ok |-> TRUE,
            bytes |-> Flatten([i \in 1..Len(str) |->
                         IF pad(str[i]) THEN << str[i] % 256 >>
                         ELSE << idx(str[i]) % 256, idx(str[i]) \div 256 >>])]

\* ------------------------------------------------------------------------
\* Scheme selection
\* ------------------------------------------------------------------------

Schemes == {"base32768", "base65536"}

\* encode's match on the encoding subcommand.
TextEncode(bytes, scheme) ==
  IF scheme = "base32768" THEN Base32768Encode(bytes) ELSE Base65536Encode(bytes)

\* Mutant of LowByteIsZero: the `& 0xff` is left out.
LowByteIsZeroUnmasked(first_char) == (first_char % 65536) = 0

\* `first_char as u16 & 0xff == 0`: the low 16 bits of the code point, masked
\* to their low 8 bits.
LowByteIsZero(first_char) == ((first_char % 65536) % 256) = 0

\* decode's choice of transport codec from the first character.
DetectScheme(first_char) ==
  IF LowByteIsZero(first_char) THEN "base65536" ELSE "base32768"

\* ------------------------------------------------------------------------
\* UTF-8 and URL decoding (urlencoding::decode)
\* ------------------------------------------------------------------------

Slash == 47

Percent == 37

\* The UTF-8 bytes of one code point.
Utf8Char(cp) ==
  IF cp < 128 THEN << cp >>
  ELSE IF cp < 2048 THEN << 192 + (cp \div 64), 128 + (cp % 64) >>
  ELSE IF cp < 65536
       THEN << 224 + (cp \div 4096), 128 + ((cp \div 64) % 64), 128 + (cp % 64) >>
  ELSE << 240 + (cp \div 262144), 128 + ((cp \div 4096) % 64),
          128 + ((cp \div 64) % 64), 128 + (cp % 64) >>

Utf8Encode(str) == Flatten([i \in 1..Len(str) |-> Utf8Char(str[i])])

IsCont(b) == b >= 128 /\ b < 192

\* The length of the sequence a lead byte opens, 0 for a byte that opens none.
Utf8Len(b0) ==
  IF b0 < 128 THEN 1
  ELSE IF b0 >= 192 /\ b0 < 224 THEN 2
  ELSE IF b0 >= 224 /\ b0 < 240 THEN 3
  ELSE IF b0 >= 240 /\ b0 < 248 THEN 4
  ELSE 0

\* The code point of the sequence of length len at position i.
Utf8Value(bytes, i, len) ==
  IF len = 1 THEN bytes[i]
  ELSE IF len = 2 THEN (bytes[i] - 192) * 64 + (bytes[i + 1] - 128)
  ELSE IF len = 3
       THEN (bytes[i] - 224) * 4096 + (bytes[i + 1] - 128) * 64 + (bytes[i + 2] - 128)
  ELSE (bytes[i] - 240) * 262144 + (bytes[i + 1] - 128) * 4096
         + (bytes[i + 2] - 128) * 64 + (bytes[i + 3] - 128)

\* String::from_utf8: [ok, str].  Rejects stray continuation bytes, short
\* sequences, overlong forms, surrogates and values above U+10FFFF: every
\* byte that is no continuation byte opens a sequence of its length, followed
\* by exactly that many continuation bytes.
Utf8Decode(bytes) ==
  LET n == Len(bytes)
      good(i) ==
        LET len == Utf8Len(bytes[i])
            cp  == Utf8Value(bytes, i, len)
        IN  /\ len > 0
            /\ i + len - 1 <= n
            /\ \A k \in (i + 1)..(i + len - 1) : IsCont(bytes[k])
            /\ (i + len <= n => ~IsCont(bytes[i + len]))
            /\ (len = 2 => cp >= 128)
            /\ (len = 3 => cp >= 2048 /\ ~(cp >= 55296 /\ cp <= 57343))
            /\ (len = 4 => cp >= 65536 /\ cp <= 1114111)
  IN  IF /\ (n > 0 => ~IsCont(bytes[1]))
         /\ \A i \in 1..n : IsCont(bytes[i]) \/ good(i)
      THEN [ok |-> TRUE,
            str |-> Flatten([i \in 1..n |->
                      IF IsCont(bytes[i]) THEN <<>>
                      ELSE << Utf8Value(bytes, i, Utf8Len(bytes[i])) >>])]
      ELSE [ok |-> FALSE, str |-> <<>>]

\* The value of an ASCII hex digit, or -1.
HexVal(c) ==
  IF c >= 48 /\ c <= 57 THEN c - 48
  ELSE IF c >= 65 /\ c <= 70 THEN c - 55
  ELSE IF c >= 97 /\ c <= 102 THEN c - 87
  ELSE -1

\* The two upper-case hex digits of a byte.
HexDigit(v) == IF v < 10 THEN 48 + v ELSE 55 + v

\* Percent-decoding of a byte string: %XX becomes the byte XX, a '%' not
\* followed by two hex digits is copied.  (The two digits of an escape are
\* never a '%', so where an escape starts does not depend on what precedes.)
PercentDecodeBytes(bytes) ==
  LET n == Len(bytes)
      escape(i) == /\ i >= 1
                   /\ i + 2 <= n
                   /\ bytes[i] = Percent
                   /\ HexVal(bytes[i + 1]) >= 0
                   /\ HexVal(bytes[i + 2]) >= 0
  IN  Flatten([i \in 1..n |->
        IF escape(i) THEN << 16 * HexVal(bytes[i + 1]) + HexVal(bytes[i + 2]) >>
        ELSE IF escape(i - 1) \/ escape(i - 2) THEN <<>>
        ELSE << bytes[i] >>])

\* urlencoding::decode(&d.url): [ok, str]; Err when the decoded bytes are
\* not UTF-8.
UrlDecode(str) == Utf8Decode(PercentDecodeBytes(Utf8Encode(str)))

\* The position of the last '/' of a string, 0 when it has none.
LastSlash(str) ==
  LET at == { i \in 1..Len(str) : str[i] = Slash }
  IN  IF at = {} THEN 0 ELSE CHOOSE i \in at : \A k \in at : k <= i

\* `url.rsplit_once('/').map(|v| v.1).unwrap_or(&d.url)`: the part of the
\* decoded url after its last '/', and the argument as given when the
\* decoded url has no '/'.
EncodedStr(url, raw) ==
  LET i == LastSlash(url)
  IN  IF i > 0 THEN Drop(url, i) ELSE raw

\* ------------------------------------------------------------------------
\* HMAC-SHA1 (hmac crate): a deterministic 20-byte function of key and body
\* ------------------------------------------------------------------------

TagLen == 20

\* Stands for `HmacSha1::new_from_slice(key); update(body); finalize()`: the
\* digest itself is not modelled, only that it is 20 bytes fixed by the key
\* and the body.
HmacSha1(key, body) ==
  LET seed == 31 * SumSeq(key) + 7 * SumSeq(body) + 13 * Len(body) + 17 * Len(key)
  IN  << >> \o [i \in 1..TagLen |-> (seed + 11 * i) % 256]

\* ------------------------------------------------------------------------
\* Payload schema: the prost messages quake_prefecture::QuakePrefectureData
\* and tsunami::TsunamiForecastData (proto3 wire format)
\* ------------------------------------------------------------------------

\* The buckets of each shape, in field order; bucket i is field i + 2, after
\* time (field 1) and epicenter (field 2).
QuakeBuckets ==
  << "one", "two", "three", "four", "five_minus", "five_plus",
     "six_minus", "six_plus", "seven" >>

TsunamiBuckets == << "forecast", "advisory", "warning", "major_warning" >>

BucketsOf(id) == IF id = 0 THEN QuakeBuckets ELSE TsunamiBuckets

NoEpicenter == [some |-> FALSE, lat_x10 |-> 0, lon_x10 |-> 0]

SomeEpicenter(lat, lon) == [some |-> TRUE, lat_x10 |-> lat, lon_x10 |-> lon]

NoCodes == [some |-> FALSE, codes |-> <<>>]

SomeCodes(codes) == [some |-> TRUE, codes |-> codes]

\* Default::default() of either message.
DefaultData(id) ==
  [time |-> 0, epicenter |-> NoEpicenter,
   buckets |-> [i \in 1..Len(BucketsOf(id)) |-> NoCodes]]

\* A varint of a value in 0 .. 2^31 - 1.
RECURSIVE Varint(_)
Varint(v) ==
  IF v < 128 THEN << v >> ELSE << 128 + (v % 128) >> \o Varint(v \div 128)

\* A varint of an int32: a negative value is sign-extended to 64 bits, ten
\* bytes on the wire.
VarintInt32(v) ==
  IF v >= 0 THEN Varint(v)
  ELSE LET low == Pow2(28) + v
       IN  << 128 + (low % 128), 128 + ((low \div 128) % 128),
              128 + ((low \div 16384) % 128), 128 + ((low \div 2097152) % 128),
              255, 255, 255, 255, 255, 1 >>

Key(num, wt) == Varint(8 * num + wt)

LenDelimited(num, bytes) == Key(num, 2) \o Varint(Len(bytes)) \o bytes

\* CodeArray { repeated uint32 codes = 1 }, packed; an empty list is omitted.
EncodeCodeArray(codes) ==
  IF codes = <<>> THEN <<>>
  ELSE LenDelimited(1, Flatten([i \in 1..Len(codes) |-> Varint(codes[i])]))

\* Epicenter { int32 lat_x10 = 1; int32 lon_x10 = 2 }; a zero is omitted.
EncodeEpicenter(e) ==
  (IF e.lat_x10 = 0 THEN <<>> ELSE Key(1, 0) \o VarintInt32(e.lat_x10))
    \o (IF e.lon_x10 = 0 THEN <<>> ELSE Key(2, 0) \o VarintInt32(e.lon_x10))

\* Message::encode_to_vec: fields in field order, a zero time and a None
\* left out, a Some written even when its message is empty.
EncodeToVec(data) ==
  (IF data.time = 0 THEN <<>> ELSE Key(1, 0) \o Varint(data.time))
    \o (IF data.epicenter.some
        THEN LenDelimited(2, EncodeEpicenter(data.epicenter)) ELSE <<>>)
    \o Flatten([i \in 1..Len(data.buckets) |->
                  IF data.buckets[i].some
                  THEN LenDelimited(i + 2, EncodeCodeArray(data.buckets[i].codes))
                  ELSE <<>>])

\* One varint off the front of a buffer: [ok, groups, rest], the 7-bit groups
\* least significant first.  Fails when the buffer ends inside it or it runs
\* past 64 bits.
RECURSIVE ReadVarint(_, _)
ReadVarint(bytes, n) ==
  IF bytes = <<>> \/ n > 10 \/ (n = 10 /\ bytes[1] >= 2)
  THEN [ok |-> FALSE, groups |-> <<>>, rest |-> <<>>]
  ELSE IF bytes[1] < 128
       THEN [ok |-> TRUE, groups |-> << bytes[1] >>, rest |-> Tail(bytes)]
       ELSE LET more == ReadVarint(Tail(bytes), n + 1)
            IN  IF more.ok
                THEN [ok |-> TRUE, groups |-> << bytes[1] - 128 >> \o more.groups,
                      rest |-> more.rest]
                ELSE more

\* The value of a sequence of 7-bit groups, least significant first.
RECURSIVE GroupsValue(_)
GroupsValue(groups) ==
  IF groups = <<>> THEN 0 ELSE Head(groups) + 128 * GroupsValue(Tail(groups))

\* Whether every group after the n-th is zero.
HighZero(groups, n) == \A i \in (n + 1)..Len(groups) : groups[i] = 0

\* The value of a varint read as uint64 or uint32, exact below 2^31 (the
\* range of the model's times and codes).
GroupsUint(groups) ==
  GroupsValue(Take(groups, 4))
    + (IF Len(groups) >= 5 THEN Pow2(28) * (groups[5] % 8) ELSE 0)

\* `value as i32`: the low 32 bits of a varint, as a signed number.
GroupsInt32(groups) ==
  LET g(i)  == IF i <= Len(groups) THEN groups[i] ELSE 0
      low28 == g(1) + 128 * g(2) + 16384 * g(3) + 2097152 * g(4)
      low31 == low28 + Pow2(28) * (g(5) % 8)
  IN  IF (g(5) \div 8) % 2 = 1 THEN (low31 - Pow2(30)) - Pow2(30) ELSE low31

\* The fields of a message, as prost's merge loop reads them: [ok, fields,
\* rest], each field [num, wt, groups, bytes].  `group` is the number of the
\* group being skipped, 0 at the top of a message.  Fails on a truncated key
\* or value, a field number 0, a wire type above 5 and an unmatched end of
\* group.
RECURSIVE ReadFields(_, _)
ReadFields(bytes, group) ==
  LET bad == [ok |-> FALSE, fields |-> <<>>, rest |-> <<>>]
      then(field, rest) ==
        LET more == ReadFields(rest, group)
        IN  IF more.ok
            THEN [ok |-> TRUE, fields |-> << field >> \o more.fields,
                  rest |-> more.rest]
            ELSE bad
  IN
  IF bytes = <<>>
  THEN (IF group = 0 THEN [ok |-> TRUE, fields |-> <<>>, rest |-> <<>>] ELSE bad)
  ELSE
    LET k == ReadVarint(bytes, 1)
    IN
    IF ~k.ok \/ ~HighZero(k.groups, 5) \/ (Len(k.groups) >= 5 /\ k.groups[5] >= 16)
    THEN bad
    ELSE
      LET low == GroupsValue(Take(k.groups, 4))
          wt  == low % 8
          num == (low \div 8)
                   + (IF Len(k.groups) >= 5 THEN Pow2(25) * k.groups[5] ELSE 0)
          f(groups, payload) ==
            [num |-> num, wt |-> wt, groups |-> groups, bytes |-> payload]
      IN
      IF wt > 5 \/ num = 0 THEN bad
      ELSE IF wt = 0 THEN
        LET v == ReadVarint(k.rest, 1)
        IN  IF v.ok THEN then(f(v.groups, <<>>), v.rest) ELSE bad
      ELSE IF wt = 1 THEN
        IF Len(k.rest) >= 8 THEN then(f(<<>>, Take(k.rest, 8)), Drop(k.rest, 8))
        ELSE bad
      ELSE IF wt = 5 THEN
        IF Len(k.rest) >= 4 THEN then(f(<<>>, Take(k.rest, 4)), Drop(k.rest, 4))
        ELSE bad
      ELSE IF wt = 2 THEN
        LET l == ReadVarint(k.rest, 1)
        IN  IF ~l.ok \/ ~HighZero(l.groups, 4) THEN bad
            ELSE LET n == GroupsValue(l.groups)
                 IN  IF Len(l.rest) >= n
                     THEN then(f(<<>>, Take(l.rest, n)), Drop(l.rest, n))
                     ELSE bad
      ELSE IF wt = 3 THEN
        LET inner == ReadFields(k.rest, num)
        IN  IF inner.ok THEN then(f(<<>>, <<>>), inner.rest) ELSE bad
      ELSE
        IF group # 0 /\ num = group
        THEN [ok |-> TRUE, fields |-> <<>>, rest |-> k.rest]
        ELSE bad

\* The uint32 values of a packed field: [ok, codes].
RECURSIVE ReadPacked(_)
ReadPacked(bytes) ==
  IF bytes = <<>> THEN [ok |-> TRUE, codes |-> <<>>]
  ELSE LET v == ReadVarint(bytes, 1)
       IN  IF ~v.ok THEN [ok |-> FALSE, codes |-> <<>>]
           ELSE LET more == ReadPacked(v.rest)
                IN  IF more.ok
                    THEN [ok |-> TRUE,
                          codes |-> << GroupsUint(v.groups) >> \o more.codes]
                    ELSE more

\* CodeArray::merge over the fields of one occurrence: [ok, val].
RECURSIVE MergeCodeArray(_, _)
MergeCodeArray(val, fields) ==
  IF fields = <<>> THEN [ok |-> TRUE, val |-> val]
  ELSE LET fl == Head(fields)
       IN  IF fl.num # 1 THEN MergeCodeArray(val, Tail(fields))
           ELSE IF fl.wt = 0
                THEN MergeCodeArray(
                       SomeCodes(val.codes \o << GroupsUint(fl.groups) >>),
                       Tail(fields))
           ELSE IF fl.wt = 2
                THEN LET p == ReadPacked(fl.bytes)
                     IN  IF p.ok
                         THEN MergeCodeArray(SomeCodes(val.codes \o p.codes),
                                             Tail(fields))
                         ELSE [ok |-> FALSE, val |-> val]
           ELSE [ok |-> FALSE, val |-> val]

\* Epicenter::merge over the fields of one occurrence: [ok, val].
RECURSIVE MergeEpicenter(_, _)
MergeEpicenter(val, fields) ==
  IF fields = <<>> THEN [ok |-> TRUE, val |-> val]
  ELSE LET fl == Head(fields)
       IN  IF fl.num \notin {1, 2} THEN MergeEpicenter(val, Tail(fields))
           ELSE IF fl.wt # 0 THEN [ok |-> FALSE, val |-> val]
           ELSE IF fl.num = 1
                THEN MergeEpicenter([val EXCEPT !.lat_x10 = GroupsInt32(fl.groups)],
                                    Tail(fields))
           ELSE MergeEpicenter([val EXCEPT !.lon_x10 = GroupsInt32(fl.groups)],
                               Tail(fields))

\* Message::merge of the outer message over its fields: [ok, data].  A field
\* of a known number with another wire type is an error, an unknown field is
\* skipped, a repeated message field merges into the value already there.
RECURSIVE MergeData(_, _)
MergeData(data, fields) ==
  IF fields = <<>> THEN [ok |-> TRUE, data |-> data]
  ELSE
    LET fl  == Head(fields)
        bad == [ok |-> FALSE, data |-> data]
    IN
    IF fl.num = 1 THEN
      IF fl.wt # 0 THEN bad
      ELSE MergeData([data EXCEPT !.time = GroupsUint(fl.groups)],
                     Tail(fields))
    ELSE IF fl.num = 2 THEN
      IF fl.wt # 2 THEN bad
      ELSE LET inner == ReadFields(fl.bytes, 0)
               e     == MergeEpicenter([data.epicenter EXCEPT !.some = TRUE],
                                       inner.fields)
           IN  IF inner.ok /\ e.ok
               THEN MergeData([data EXCEPT !.epicenter = e.val], Tail(fields))
               ELSE bad
    ELSE IF fl.num - 2 \in 1..Len(data.buckets) THEN
      IF fl.wt # 2 THEN bad
      ELSE LET inner == ReadFields(fl.bytes, 0)
               c     == MergeCodeArray(SomeCodes(data.buckets[fl.num - 2].codes),
                                       inner.fields)
           IN  IF inner.ok /\ c.ok
               THEN MergeData([data EXCEPT !.buckets[fl.num - 2] = c.val],
                              Tail(fields))
               ELSE bad
    ELSE MergeData(data, Tail(fields))

\* Message::decode(body) of the message of type id `id`: [ok, data].
DecodeMessage(id, body) ==
  LET fs == ReadFields(body, 0)
  IN  IF fs.ok THEN MergeData(DefaultData(id), fs.fields)
      ELSE [ok |-> FALSE, data |-> DefaultData(id)]

\* ------------------------------------------------------------------------
\* State
\* ------------------------------------------------------------------------

VARIABLES
  pc,           \* where the current process stands
  e,            \* the Encode arguments: prefix, encoding, hmac_key, payload
  buffer,       \* encode: the envelope handed to the text transport codec
  enc_out,      \* standard output of the encode process, a sequence of lines
  url,          \* the Decode argument d.url
  decoded,      \* decode: `url`, the argument after urlencoding::decode
  encoded_str,  \* decode: the token handed to detection and transport decoding
  first_char,   \* decode: its first character
  mode,         \* decode: the name of the scheme selected
  bin,          \* decode: the bytes the transport codec returned
  version,      \* decode: the type id read from the envelope
  body,         \* decode: the payload bytes read from the envelope
  data,         \* decode: the deserialized message
  dec_out,      \* standard output of the decode process
  err,          \* standard error of the current process, "" while empty
  wire,         \* what was handed to decode, and how it was derived
  prev          \* the outputs of the decode run before the tag was replaced

encVars == << e, buffer, enc_out >>

decVars == << decoded, encoded_str, first_char, mode, bin, version, body, data >>

vars ==
  << pc, e, buffer, enc_out, url, decoded, encoded_str, first_char, mode, bin,
     version, body, data, dec_out, err, wire, prev >>

\* ------------------------------------------------------------------------
\* Inputs
\* ------------------------------------------------------------------------

\* "", "u/" and "p".
Prefixes == { <<>>, << 117, Slash >>, << 112 >> }

\* "" (the default of --hmac-key) and "key".
Keys == { <<>>, << 107, 101, 121 >> }

Times == { 0, 1700000000 }

Epicenters == { NoEpicenter, SomeEpicenter(356, 1397), SomeEpicenter(-5, 0) }

Codes == { 7, 130000 }

\* The sequences over S of length at most n.
SeqsUpTo(S, n) == UNION { [1..k -> S] : k \in 0..n }

CodeLists == SeqsUpTo(Codes, MaxCodes)

PayloadKinds == { "v0", "tsunami" }

NumBuckets(kind) == IF kind = "v0" THEN Len(QuakeBuckets) ELSE Len(TsunamiBuckets)

EmptyLists(kind) == [i \in 1..NumBuckets(kind) |-> <<>>]

\* Every bucket given a list of its own.
FullLists(kind) == [i \in 1..NumBuckets(kind) |-> << i >>]

\* One bucket given any list and the others none.
OneBucketLists(kind) ==
  { [i \in 1..NumBuckets(kind) |-> IF i = b THEN l ELSE <<>>] :
      b \in 1..NumBuckets(kind), l \in CodeLists }

\* The payloads: every time and epicenter with no list and with every list,
\* and one time with one bucket filled.
PayloadsOf(k) ==
  { [kind |-> k, time |-> t, epicenter |-> ep, lists |-> ls] :
      t \in Times, ep \in Epicenters, ls \in { EmptyLists(k), FullLists(k) } }
  \cup
  { [kind |-> k, time |-> 1700000000, epicenter |-> NoEpicenter, lists |-> ls] :
      ls \in OneBucketLists(k) }

Payloads == UNION { PayloadsOf(k) : k \in PayloadKinds }

\* The invocations of encode: every payload with the default prefix and key,
\* and every prefix and key with one payload of each shape.
EncodeArgs ==
  { [prefix |-> <<>>, encoding |-> s, hmac_key |-> <<>>, payload |-> pl] :
      s \in Schemes, pl \in Payloads }
  \cup
  { [prefix |-> p, encoding |-> s, hmac_key |-> k,
     payload |-> [kind |-> pk, time |-> 1700000000,
                  epicenter |-> SomeEpicenter(356, 1397),
                  lists |-> FullLists(pk)]] :
      p \in Prefixes, s \in Schemes, k \in Keys, pk \in PayloadKinds }

\* ------------------------------------------------------------------------
\* encode
\* ------------------------------------------------------------------------

\* Mutant of UnsupportedPayload: the let-else names the other variant, so
\* Base65536 refuses the V0 payload and takes the tsunami one.
UnsupportedPayloadOtherVariant(args) ==
  args.encoding = "base65536" /\ args.payload.kind # "tsunami"

\* The first check of encode: Base65536 takes the V0 payload only.
UnsupportedPayload(args) ==
  args.encoding = "base65536" /\ args.payload.kind # "v0"

\* Mutant of TypeId: both arms of the match give the id 0.
TypeIdAlwaysZero(payload) == 0

\* `match payload`: the type id of each payload.
TypeId(payload) == IF payload.kind = "v0" THEN 0 ELSE 1

\* The message encode builds from the arguments: the time, the epicenter
\* mapped field by field, every bucket a Some of the list given.
PayloadData(payload) ==
  [time |-> payload.time,
   epicenter |-> IF payload.epicenter.some
                 THEN SomeEpicenter(payload.epicenter.lat_x10,
                                    payload.epicenter.lon_x10)
                 ELSE NoEpicenter,
   buckets |-> [i \in 1..Len(payload.lists) |-> SomeCodes(payload.lists[i])]]

\* The marker byte pushed for Base32768.
Marker == 255

\* Mutant of Envelope: the marker is pushed whatever the encoding.
EnvelopeAlwaysMarked(id, scheme, sha1, payload_body) ==
  << id, Marker >> \o sha1 \o payload_body

\* The bytes pushed on `buffer`: the id, the marker for Base32768 only, the
\* HMAC, the body.
Envelope(id, scheme, sha1, payload_body) ==
  << id >> \o (IF scheme = "base32768" THEN << Marker >> ELSE <<>>)
            \o sha1 \o payload_body

\* fn encode.
Encode ==
  /\ pc = "encode"
  /\ IF UnsupportedPayload(e)
     THEN /\ err' = "Unsupported paylod for Base65536 format"
          /\ pc' = "failed"
          /\ UNCHANGED << buffer, enc_out >>
     ELSE LET payload_body == EncodeToVec(PayloadData(e.payload))
              sha1 == HmacSha1(e.hmac_key, payload_body)
              buf  == Envelope(TypeId(e.payload), e.encoding, sha1, payload_body)
          IN  /\ buffer' = buf
              /\ enc_out' = << e.prefix \o TextEncode(buf, e.encoding) >>
              /\ pc' = "encoded"
              /\ UNCHANGED err
  /\ UNCHANGED << e, url, decVars, dec_out, wire, prev >>

\* ------------------------------------------------------------------------
\* The strings handed to decode
\* ------------------------------------------------------------------------

Unreserved(b) ==
  \/ (b >= 48 /\ b <= 57) \/ (b >= 65 /\ b <= 90) \/ (b >= 97 /\ b <= 122)
  \/ b \in { 45, 46, 95, 126 }

\* Percent-encoding of a string, as a browser or urlencoding::encode escapes
\* a path segment.
PercentEncode(str) ==
  LET bytes == Utf8Encode(str)
  IN  Flatten([i \in 1..Len(bytes) |->
                 IF Unreserved(bytes[i]) THEN << bytes[i] >>
                 ELSE << Percent, HexDigit(bytes[i] \div 16), HexDigit(bytes[i] % 16) >>])

\* The number of bytes before the tag in an envelope of a scheme.
HeaderLen(scheme) == IF scheme = "base32768" THEN 2 ELSE 1

\* The url a wire description stands for.
BuildUrl(w) ==
  w.prefix \o (IF w.escaped THEN PercentEncode(TextEncode(w.bytes, w.scheme))
               ELSE TextEncode(w.bytes, w.scheme))

NoWire ==
  [via |-> "none", prefix |-> <<>>, scheme |-> "base32768", bytes |-> <<>>,
   escaped |-> FALSE]

NoPrev == [set |-> FALSE, out |-> <<>>, err |-> ""]

\* The locals of decode before it runs.
ResetDecode ==
  /\ decoded' = <<>>
  /\ encoded_str' = <<>>
  /\ first_char' = 0
  /\ mode' = ""
  /\ bin' = <<>>
  /\ version' = 0
  /\ body' = <<>>
  /\ data' = DefaultData(0)
  /\ dec_out' = <<>>
  /\ err' = ""

StartDecode(w, u) ==
  /\ wire' = w
  /\ url' = u
  /\ pc' = "url"
  /\ ResetDecode
  /\ UNCHANGED prev

\* The line encode printed is handed to decode as it is.
Forward ==
  /\ pc = "encoded"
  /\ StartDecode([via |-> "forward", prefix |-> e.prefix, scheme |-> e.encoding,
                  bytes |-> buffer, escaped |-> FALSE], enc_out[1])
  /\ UNCHANGED encVars

\* The line is handed over with its token percent-encoded.
ForwardEscaped ==
  /\ pc = "encoded"
  /\ LET w == [via |-> "escaped", prefix |-> e.prefix, scheme |-> e.encoding,
               bytes |-> buffer, escaped |-> TRUE]
     IN  StartDecode(w, BuildUrl(w))
  /\ UNCHANGED encVars

\* Lengths an envelope is cut to: nothing, and one byte short of, exactly,
\* and one byte over the shortest envelope of each scheme.
CutLengths == { 0, 20, 21, 22, 23 }

\* Bodies put in place of the serialized payload: cut by a byte, followed by
\* a key of wire type 7, by a varint field of an unknown number, by a repeat
\* of itself.
OtherBodies(b) ==
  { Take(b, Len(b) - 1), b \o << 15 >>, b \o << 120, 1 >>, b \o b }

TypeIds == { 0, 1, 2 }

\* The envelopes derived from the one encode built.
Tampered(buf, scheme) ==
  { Take(buf, n) : n \in CutLengths }
  \cup { [Take(buf, n) EXCEPT ![1] = 2] : n \in CutLengths \ { 0 } }
  \cup { [buf EXCEPT ![1] = n] : n \in TypeIds }
  \cup { Take(buf, HeaderLen(scheme) + TagLen) \o b :
           b \in OtherBodies(Drop(buf, HeaderLen(scheme) + TagLen)) }

\* An envelope derived from the one encode built is handed to decode in the
\* text of the same scheme (for the payloads with no list or every list).
Tamper ==
  /\ pc = "encoded"
  /\ e.payload.lists \in { EmptyLists(e.payload.kind), FullLists(e.payload.kind) }
  /\ \E b \in Tampered(buffer, e.encoding) \ { buffer } :
       LET w == [via |-> "tampered", prefix |-> e.prefix, scheme |-> e.encoding,
                 bytes |-> b, escaped |-> FALSE]
       IN  StartDecode(w, BuildUrl(w))
  /\ UNCHANGED encVars

\* "%FF" (not UTF-8 once decoded), "abc/" (no token), "%zz" and "abc".
JunkUrls ==
  { << 37, 70, 70 >>, << 97, 98, 99, 47 >>, << 37, 122, 122 >>, << 97, 98, 99 >> }

\* Encode printed nothing, and decode is handed a string that is no output
\* of encode.
Junk ==
  /\ pc = "failed"
  /\ \E u \in JunkUrls : StartDecode([NoWire EXCEPT !.via = "junk"], u)
  /\ UNCHANGED encVars

ZeroTag == [i \in 1..TagLen |-> 0]

\* The envelope last decoded, with the 20 bytes of its tag replaced.
WithTag(w, tag) ==
  [w EXCEPT !.bytes = Take(w.bytes, HeaderLen(w.scheme)) \o tag
                        \o Drop(w.bytes, HeaderLen(w.scheme) + TagLen)]

\* After a decode run, the same envelope is handed to decode again with
\* another tag; the outputs of the first run are kept for comparison.
Retag ==
  /\ pc = "done"
  /\ ~prev.set
  /\ wire.via \in { "forward", "escaped", "tampered" }
  /\ Len(wire.bytes) >= HeaderLen(wire.scheme) + TagLen
  /\ LET w == WithTag(wire, ZeroTag)
     IN  /\ w # wire
         /\ wire' = w
         /\ url' = BuildUrl(w)
  /\ prev' = [set |-> TRUE, out |-> dec_out, err |-> err]
  /\ pc' = "url"
  /\ ResetDecode
  /\ UNCHANGED encVars

\* ------------------------------------------------------------------------
\* decode
\* ------------------------------------------------------------------------

\* urlencoding::decode, then the token: the first statements of decode.
DecodeUrl ==
  /\ pc = "url"
  /\ LET r == UrlDecode(url)
     IN  IF ~r.ok
         THEN /\ err' = "Failed to URL Decoding"
              /\ pc' = "done"
              /\ UNCHANGED << decoded, encoded_str >>
         ELSE /\ decoded' = r.str
              /\ encoded_str' = EncodedStr(r.str, url)
              /\ pc' = "first"
              /\ UNCHANGED err
  /\ UNCHANGED << encVars, url, first_char, mode, bin, version, body, data,
                  dec_out, wire, prev >>

\* `encoded_str.chars().nth(0)`.
DecodeFirstChar ==
  /\ pc = "first"
  /\ IF encoded_str = <<>>
     THEN /\ err' = "Failed to get first char for decoding"
          /\ pc' = "done"
          /\ UNCHANGED first_char
     ELSE /\ first_char' = encoded_str[1]
          /\ pc' = "transport"
          /\ UNCHANGED err
  /\ UNCHANGED << encVars, url, decoded, encoded_str, mode, bin, version, body,
                  data, dec_out, wire, prev >>

\* `let (mode, bin) = ...`: the transport codec chosen by the first character.
DecodeTransport ==
  /\ pc = "transport"
  /\ LET scheme == DetectScheme(first_char)
         r == IF scheme = "base65536" THEN Base65536Decode(encoded_str)
              ELSE Base32768Decode(encoded_str)
     IN  IF ~r.ok
         THEN /\ err' = IF scheme = "base65536"
                        THEN "Failed to decode as base65536"
                        ELSE "Failed to decode as base32768"
              /\ pc' = "done"
              /\ UNCHANGED << mode, bin >>
         ELSE /\ mode' = scheme
              /\ bin' = r.bytes
              /\ pc' = "envelope"
              /\ UNCHANGED err
  /\ UNCHANGED << encVars, url, decoded, encoded_str, first_char, version, body,
                  data, dec_out, wire, prev >>

\* Mutant of MinLength: the two layouts are taken for each other.
MinLengthSwapped(scheme) == IF scheme = "base65536" THEN 22 ELSE 21

\* Mutant of MinLength: `<=` for `<`, an envelope with an empty body is short.
MinLengthOffByOne(scheme) == IF scheme = "base65536" THEN 22 ELSE 23

\* The shortest envelope of each layout.
MinLength(scheme) == IF scheme = "base65536" THEN 21 ELSE 22

\* Mutant of EnvelopeVersion: the type id is read one byte further, which
\* is the first byte of the tag in the layout without marker.
EnvelopeVersionAfterId(buf) == buf[2]

\* `bin[0]`.
EnvelopeVersion(buf) == buf[1]

\* `&bin[21..]` and `&bin[22..]`.
EnvelopeBody(buf, scheme) == Drop(buf, MinLength(scheme))

\* `&bin[1..21]` and `&bin[2..22]`: read, and never used.
ProvidedSha1(buf, scheme) ==
  SubSeq(buf, MinLength(scheme) - TagLen + 1, MinLength(scheme))

\* `let (version, _provided_sha1, body) = ...`: the layout chosen by the
\* first character again.
DecodeEnvelope ==
  /\ pc = "envelope"
  /\ LET scheme == DetectScheme(first_char)
     IN  IF Len(bin) < MinLength(scheme)
         THEN /\ err' = IF scheme = "base65536"
                        THEN "Minimum length is not satisfied (base65536)"
                        ELSE "Minimum length is not satisfied (base32768)"
              /\ pc' = "done"
              /\ UNCHANGED << version, body >>
         ELSE /\ version' = EnvelopeVersion(bin)
              /\ body' = EnvelopeBody(bin, scheme)
              /\ pc' = "payload"
              /\ UNCHANGED err
  /\ UNCHANGED << encVars, url, decoded, encoded_str, first_char, mode, bin,
                  data, dec_out, wire, prev >>

\* Mutant of DecodePayload: the header of the command is printed before the
\* message is decoded and before the type id is looked at.
DecodePayloadPrintsFirst ==
  /\ pc = "payload"
  /\ IF version \in { 0, 1 }
     THEN LET r == DecodeMessage(version, body)
          IN  IF ~r.ok
              THEN /\ err' = IF version = 0 THEN "Valid QuakePrefectureData"
                             ELSE "Valid TsunamiForecastData"
                   /\ pc' = "done"
                   /\ dec_out' = Append(dec_out, [kind |-> "header"])
                   /\ UNCHANGED data
              ELSE /\ data' = r.data
                   /\ dec_out' = Append(dec_out, [kind |-> "data", data |-> r.data])
                   /\ pc' = "command"
                   /\ UNCHANGED err
     ELSE /\ err' = "Unsupported TypeID"
          /\ pc' = "done"
          /\ dec_out' = Append(dec_out, [kind |-> "header"])
          /\ UNCHANGED data
  /\ UNCHANGED << encVars, url, decoded, encoded_str, first_char, mode, bin,
                  version, body, wire, prev >>

\* `match version`: the message is decoded (a failure panics with the text of
\* the expect) and printed with {:#?}; any other type id is reported.
DecodePayload ==
  /\ pc = "payload"
  /\ IF version \in { 0, 1 }
     THEN LET r == DecodeMessage(version, body)
          IN  IF ~r.ok
              THEN /\ err' = IF version = 0 THEN "Valid QuakePrefectureData"
                             ELSE "Valid TsunamiForecastData"
                   /\ pc' = "done"
                   /\ UNCHANGED << data, dec_out >>
              ELSE /\ data' = r.data
                   /\ dec_out' = Append(dec_out, [kind |-> "data", data |-> r.data])
                   /\ pc' = "command"
                   /\ UNCHANGED err
     ELSE /\ err' = "Unsupported TypeID"
          /\ pc' = "done"
          /\ UNCHANGED << data, dec_out >>
  /\ UNCHANGED << encVars, url, decoded, encoded_str, first_char, mode, bin,
                  version, body, wire, prev >>

\* The flag printed for each bucket, in the order printed.
QuakeFlags ==
  << "--one", "--two", "--three", "--four", "--five-minus", "--five-plus",
     "--six-minus", "--six-plus", "--seven" >>

TsunamiFlags == << "--forecast", "--advisory", "--warning", "--major-warning" >>

FlagsOf(id) == IF id = 0 THEN QuakeFlags ELSE TsunamiFlags

\* The bucket of `data` each flag's loop reads: `&data.four` from
\* --five-minus on.
QuakeRenderedFrom == << 1, 2, 3, 4, 4, 4, 4, 4, 4 >>

TsunamiRenderedFrom == << 1, 2, 3, 4 >>

RenderedFrom(id) == IF id = 0 THEN QuakeRenderedFrom ELSE TsunamiRenderedFrom

\* `x as f32 / 10.0` as printed: sign, whole part and tenth.  (f32 holds
\* every tenth of the model's coordinates to the digit printed.)
Tenths(x) ==
  LET a == IF x < 0 THEN 0 - x ELSE x
  IN  << IF x < 0 THEN 1 ELSE 0, a \div 10, a % 10 >>

\* The options of the command printed for a message: --time, --epicenter
\* when there is one, then one option per code of each bucket read.
RenderOptions(id, msg) ==
  << [flag |-> "--time", val |-> << msg.time >>] >>
    \o (IF msg.epicenter.some
        THEN << [flag |-> "--epicenter",
                 val |-> Tenths(msg.epicenter.lat_x10)
                           \o Tenths(msg.epicenter.lon_x10)] >>
        ELSE <<>>)
    \o Flatten([i \in 1..Len(FlagsOf(id)) |->
                  LET from == msg.buckets[RenderedFrom(id)[i]]
                  IN  IF from.some
                      THEN [j \in 1..Len(from.codes) |->
                              [flag |-> FlagsOf(id)[i], val |-> << from.codes[j] >>]]
                      ELSE <<>>])

\* The command line printed after the message.
DecodeCommand ==
  /\ pc = "command"
  /\ dec_out' = Append(dec_out,
                  [kind |-> "command", encoding |-> mode,
                   payload |-> IF version = 0 THEN "v0" ELSE "tsunami",
                   options |-> RenderOptions(version, data)])
  /\ pc' = "done"
  /\ UNCHANGED << encVars, url, decVars, err, wire, prev >>

\* ------------------------------------------------------------------------
\* Specifications
\* ------------------------------------------------------------------------

InitDecode ==
  /\ url = <<>>
  /\ decoded = <<>>
  /\ encoded_str = <<>>
  /\ first_char = 0
  /\ mode = ""
  /\ bin = <<>>
  /\ version = 0
  /\ body = <<>>
  /\ data = DefaultData(0)
  /\ dec_out = <<>>
  /\ err = ""
  /\ wire = NoWire
  /\ prev = NoPrev

\* An encode invocation, then decode invocations on what it printed.
Init ==
  /\ pc = "encode"
  /\ e \in EncodeArgs
  /\ buffer = <<>>
  /\ enc_out = <<>>
  /\ InitDecode

Next ==
  \/ Encode
  \/ Forward
  \/ ForwardEscaped
  \/ Tamper
  \/ Junk
  \/ Retag
  \/ DecodeUrl
  \/ DecodeFirstChar
  \/ DecodeTransport
  \/ DecodeEnvelope
  \/ DecodePayload
  \/ DecodeCommand

Spec == Init /\ [][Next]_vars

\* The bytes bare buffers are made of.
RawBytes == { 0, 1, 2, 64, 127, 128, 192, 255 }

\* The text transport codec on any buffer: a buffer and a scheme, not an
\* envelope of encode.
InitCodec ==
  /\ pc = "raw"
  /\ buffer \in SeqsUpTo(RawBytes, MaxRaw)
  /\ \E s \in Schemes :
       e = [prefix |-> <<>>, encoding |-> s, hmac_key |-> <<>>,
            payload |-> [kind |-> "v0", time |-> 0, epicenter |-> NoEpicenter,
                         lists |-> EmptyLists("v0")]]
  /\ enc_out = <<>>
  /\ InitDecode

\* The buffer is rendered in the scheme chosen and the text handed to decode.
CodecEncode ==
  /\ pc = "raw"
  /\ enc_out' = << TextEncode(buffer, e.encoding) >>
  /\ StartDecode([via |-> "codec", prefix |-> <<>>, scheme |-> e.encoding,
                  bytes |-> buffer, escaped |-> FALSE],
                 TextEncode(buffer, e.encoding))
  /\ UNCHANGED << e, buffer >>

NextCodec ==
  \/ CodecEncode
  \/ DecodeUrl
  \/ DecodeFirstChar
  \/ DecodeTransport

SpecCodec == InitCodec /\ [][NextCodec]_vars

\* ------------------------------------------------------------------------
\* Properties
\* ------------------------------------------------------------------------

\* The encode process has just printed its line.
EncodePrinted == pc = "encoded"

\* A prefix after which the token is found again: empty, or ending in '/'.
PrefixEndsToken(prefix) == LastSlash(prefix) = Len(prefix)

\* The body and tag encode is to put in the envelope of its arguments.
ExpectedBody == EncodeToVec(PayloadData(e.payload))

ExpectedTag == HmacSha1(e.hmac_key, ExpectedBody)

\* C1: round trip.  When the line encode printed (with no prefix, or a
\* prefix ending in '/') is decoded, decode reports nothing, prints the
\* message and the command, and the message has the type id, the time, the
\* epicenter and every bucket of the record encode was given, each bucket's
\* codes in order with their duplicates; for both schemes with the quake
\* record and for Scheme A with the tsunami record.
C1_RoundTrip ==
  (pc = "done" /\ wire.via = "forward" /\ ~prev.set /\ PrefixEndsToken(e.prefix))
    => /\ err = ""
       /\ Len(dec_out) = 2
       /\ dec_out[1].kind = "data"
       /\ version = (IF e.payload.kind = "v0" THEN 0 ELSE 1)
       /\ dec_out[1].data.time = e.payload.time
       /\ dec_out[1].data.epicenter = e.payload.epicenter
       /\ Len(dec_out[1].data.buckets) = Len(e.payload.lists)
       /\ \A i \in 1..Len(e.payload.lists) :
            /\ dec_out[1].data.buckets[i].some
            /\ dec_out[1].data.buckets[i].codes = e.payload.lists[i]

\* A quake record with a negative coordinate and every bucket filled has
\* come back through Scheme B.
C1_Witness ==
  /\ pc = "done"
  /\ wire.via = "forward"
  /\ ~prev.set
  /\ e.encoding = "base65536"
  /\ e.payload.kind = "v0"
  /\ e.payload.epicenter = SomeEpicenter(-5, 0)
  /\ e.payload.lists = FullLists("v0")
  /\ Len(dec_out) = 2
  /\ dec_out[1].data.buckets[9].codes = << 9 >>

\* C2: envelope layout.  The buffer encode hands to the text codec is the
\* type id byte, then the 0xFF marker exactly when the scheme is Scheme A,
\* then the 20-byte tag, then the body: 22 + len(body) bytes for Scheme A,
\* 21 + len(body) for Scheme B, which has no marker; and the line printed is
\* the prefix followed by that buffer in the text of the scheme.
C2_EnvelopeLayout ==
  EncodePrinted =>
    /\ buffer[1] = (IF e.payload.kind = "v0" THEN 0 ELSE 1)
    /\ IF e.encoding = "base32768"
       THEN /\ Len(buffer) = 22 + Len(ExpectedBody)
            /\ buffer[2] = 255
            /\ SubSeq(buffer, 3, 22) = ExpectedTag
            /\ SubSeq(buffer, 23, Len(buffer)) = ExpectedBody
       ELSE /\ Len(buffer) = 21 + Len(ExpectedBody)
            /\ SubSeq(buffer, 2, 21) = ExpectedTag
            /\ SubSeq(buffer, 22, Len(buffer)) = ExpectedBody
    /\ enc_out = << e.prefix \o TextEncode(buffer, e.encoding) >>

\* A Scheme B envelope with a body has been built under a key.
C2_Witness ==
  /\ pc = "encoded"
  /\ e.encoding = "base65536"
  /\ e.hmac_key # <<>>
  /\ Len(buffer) > 21
  /\ buffer[2] # 255

\* C6: the disallowed pairing is rejected.  Encode of a tsunami payload with
\* Scheme B prints nothing and reports the unsupported payload, whatever the
\* time, the epicenter, the lists, the key and the prefix; encode of every
\* other pairing prints its line and reports nothing.
C6_DisallowedPairingRejected ==
  (pc # "encode") =>
    IF e.encoding = "base65536" /\ e.payload.kind = "tsunami"
    THEN /\ enc_out = <<>>
         /\ buffer = <<>>
         /\ pc # "encoded"
         /\ (pc = "failed" => err = "Unsupported paylod for Base65536 format")
    ELSE /\ pc # "failed"
         /\ Len(enc_out) = 1
         /\ enc_out[1] # e.prefix
         /\ (pc = "encoded" => err = "")

\* A tsunami payload with lists, a key and a prefix has been refused.
C6_Witness ==
  /\ pc = "failed"
  /\ e.payload.kind = "tsunami"
  /\ e.encoding = "base65536"
  /\ e.hmac_key # <<>>
  /\ e.prefix = << 117, Slash >>
  /\ e.payload.lists = FullLists("tsunami")
  /\ enc_out = <<>>

\* The stages of decode a run has passed.
PastTransport == pc \in { "envelope", "payload", "command" }
                   \/ (pc = "done" /\ mode # "")

PastEnvelope == pc \in { "payload", "command" }
                  \/ (pc = "done" /\ mode # "" /\ Len(bin) >= MinLength(mode))

\* C3 as stated: for every buffer B and scheme S, the rule of decode (first
\* character masked to its low 8 bits equal to zero: Scheme B, otherwise
\* Scheme A) applied to the text of B in S returns S.
C3_DetectsAnyBuffer ==
  (pc = "transport" /\ wire.via = "codec") => DetectScheme(first_char) = e.encoding

\* C3 as amended: the rule returns S for every buffer that starts as an
\* envelope of S does, with the first byte 0x00 in Scheme B and with the
\* second byte the marker 0xFF in Scheme A.
C3_DetectsEnvelopeHeads ==
  ( /\ pc = "transport"
    /\ wire.via = "codec"
    /\ (e.encoding = "base65536" => buffer[1] = 0)
    /\ (e.encoding = "base32768" => Len(buffer) >= 2 /\ buffer[2] = 255) )
    => DetectScheme(first_char) = e.encoding

\* The buffer [1, 0xFF] rendered in Scheme A has been detected as Scheme A.
C3_Witness ==
  /\ pc = "transport"
  /\ wire.via = "codec"
  /\ e.encoding = "base32768"
  /\ buffer = << 1, 255 >>
  /\ DetectScheme(first_char) = "base32768"

\* C4: decode does not mistake the layouts of what encode emits.  For the
\* envelope encode built (type id 0 in either scheme, type id 1 in Scheme A),
\* under the tag of encode or any other, decode selects the scheme encode
\* used, recovers the envelope byte for byte, and reads the type id and the
\* body at the places of that scheme's layout.
C4_LayoutFollowsScheme ==
  (wire.via = "forward" /\ PrefixEndsToken(e.prefix)) =>
    /\ (pc = "done" => err = "")
    /\ (pc = "transport" => DetectScheme(first_char) = e.encoding)
    /\ (PastTransport => mode = e.encoding /\ bin = wire.bytes)
    /\ (PastEnvelope =>
          /\ version = buffer[1]
          /\ body = SubSeq(buffer, (IF e.encoding = "base32768" THEN 23 ELSE 22),
                           Len(buffer)))

\* A Scheme B envelope whose tag was replaced has been parsed as Scheme B.
C4_Witness ==
  /\ pc = "done"
  /\ wire.via = "forward"
  /\ prev.set
  /\ e.encoding = "base65536"
  /\ mode = "base65536"
  /\ body # <<>>
  /\ err = ""

CodesUnder(options, f) ==
  LET HasFlag(o) == o.flag = f
      sel == SelectSeq(options, HasFlag)
  IN  [j \in 1..Len(sel) |-> sel[j].val[1]]

\* The codes of a bucket of a message (none when the bucket is absent).
CodesOfBucket(b) == IF b.some THEN b.codes ELSE <<>>

\* C7 as stated: for every message decoded, the command printed lists under
\* the flag of each bucket exactly the codes of that same bucket, in order.
C7_CommandPerBucket ==
  (pc = "done" /\ err = "") =>
    \A i \in 1..Len(FlagsOf(version)) :
      CodesUnder(dec_out[2].options, FlagsOf(version)[i])
        = CodesOfBucket(data.buckets[i])

\* The diagnostics of the stages of decode, in the order of the stages.
UrlStageErrors == { "Failed to URL Decoding", "Failed to get first char for decoding" }

TransportStageErrors ==
  { "Failed to decode as base65536", "Failed to decode as base32768" }

EnvelopeStageErrors ==
  { "Minimum length is not satisfied (base65536)",
    "Minimum length is not satisfied (base32768)" }

PayloadStageErrors ==
  { "Unsupported TypeID", "Valid QuakePrefectureData", "Valid TsunamiForecastData" }

\* The transport decoding of a token by the scheme its first character selects.
TransportOf(str) ==
  IF DetectScheme(str[1]) = "base65536" THEN Base65536Decode(str)
  ELSE Base32768Decode(str)

WellHeaded(w) ==
  IF w.scheme = "base65536" THEN w.bytes[1] = 0 ELSE w.bytes[2] = Marker

\* C9: the tag does not influence decode.  Two envelopes of one scheme with
\* the same type id and the same body, which differ in their 20 tag bytes
\* only, give the same message, the same command and the same diagnostic, and
\* both pass envelope parsing.
C9_TagIgnored ==
  (pc = "done" /\ prev.set) =>
    /\ dec_out = prev.out
    /\ err = prev.err
    /\ ( ( /\ wire.via \in { "forward", "tampered" }
           /\ PrefixEndsToken(wire.prefix)
           /\ WellHeaded(wire) )
         => /\ err \in { "" } \cup PayloadStageErrors
            /\ prev.err \in { "" } \cup PayloadStageErrors )

\* The envelope encode built has been decoded under its own tag and under
\* another, with a message and a command printed.
C9_Witness ==
  /\ pc = "done"
  /\ prev.set
  /\ wire.via = "forward"
  /\ wire.bytes # buffer
  /\ bin = wire.bytes
  /\ Len(dec_out) = 2
  /\ dec_out = prev.out

\* C10 as stated: the token handed to scheme detection and to the transport
\* decoding is taken from the URL-decoded input: what follows its last '/',
\* and all of it when it holds no '/'.
C10_TokenFromDecodedUrl ==
  ( \/ pc \in { "first", "transport", "envelope", "payload", "command" }
    \/ (pc = "done" /\ err # "Failed to URL Decoding") )
    => encoded_str = Drop(decoded, LastSlash(decoded))

====
